---- MODULE Spec2Model ----
(***************************************************************************)
(* A model of the tweet collection pipeline of twitter-scraper-finetune:   *)
(*   - main (index.js): shared sinks initialised, one TwitterPipeline run  *)
(*     per username, sinks closed;                                         *)
(*   - TwitterPipeline.run / verifyScraperSession / collectTweets /        *)
(*     processAndSaveTweets, and DataOrganizer.saveTweets;                 *)
(*   - LinkaceManager.initialize / urlExists / saveTweets / close.         *)
(* Spec is the batch run of main; SpecLinkace drives one LinkaceManager    *)
(* through its public methods with every input list and remote answer.     *)
(***************************************************************************)
EXTENDS Integers, Sequences, FiniteSets, TLC

VARIABLES
    \* ---- LinkaceManager fields (LinkaceManager.js:22-28)
    linkaceHost,            \* process.env.LINKACE_HOST ("" = not set)
    linkaceApiKey,          \* process.env.LINKACE_API_KEY ("" = not set)
    linkaceListId,          \* process.env.LINKACE_LIST, a sequence of characters
    isInitialized,
    apiClient,              \* "null" or "client"
    \* ---- the outcome of the last LinkaceManager method call
    lmResult,               \* of initialize and close: "none", "ok" or "threw"; of
                            \* urlExists: "exists", "absent" or "url_threw"
    lmRemote,               \* remote calls issued by the last initialize/urlExists call
    \* ---- one LinkaceManager.saveTweets call (its locals and position)
    lmPc,                   \* "idle", "loop", "bulk", "returned", "threw"
    lmTweets,               \* the tweets argument
    lmPos,                  \* index of the next tweet of the for loop
    linksToCreate,
    skippedForMissingData,
    skippedAsExisting,
    successfulSaves,
    failedSaves,
    checks,                 \* urlExists calls of this call: <<[idx, resp, exists]>>
    pushed,                 \* indices of the tweets pushed to linksToCreate
    bulkPosts,              \* payloads posted to /api/v2/bulk/links by this call
    bulkAnswer,             \* the answer to the bulk post of this call, "none" before it
    callNo,                 \* 0: saveTweets not called yet, 1: in or after its first
                            \* call, 2: in or after a later call
    \* ---- DatabaseManager field (DataOrganizer.js:411-414)
    db,                     \* "null" or "open"
    \* ---- main (index.js:79-113)
    usernames,
    mainPc,
    idx,                    \* position in usernames of the current pipeline
    runs,                   \* <<[idx, status]>>: the pipeline runs started, in order
    opened,                 \* how often each shared sink was initialised and closed
    \* ---- one TwitterPipeline.run
    runPc,
    visited,                \* the steps of run() entered by the current run
    consumed,               \* the items the feed source has yielded to this run
    tweets,                 \* the Map of collectTweets, in insertion order
    collected,              \* the array collectTweets returned
    srcError,               \* "none", "profile" or "feed": what raised in collectTweets
    profileCalls,
    feedReads,
    session,                \* the answer of scraper.isLoggedIn: "pending", "true", "false", "raise"
    sinkCalls,              \* the sinks invoked by this run, in order
    written,                \* the artifacts DataOrganizer.saveTweets has written
    runRaised,              \* TRUE when run() raised to main
    \* ---- the tweets table and one DatabaseManager.saveTweets call
    table,                  \* the rows of the tweets table
    dbPc,                   \* "idle", "insert", "finalize", "returned", "threw"
    dbBatch,                \* the tweets argument
    dbPos,                  \* index of the next tweet of the for loop
    dbFailed,               \* TRUE when an insert of this call failed
    tableAtStart,           \* the table when this call started
    dbRepeat,               \* TRUE when this call has the batch of the call before it
    dbPrevOk,               \* TRUE when the call before it inserted its whole batch
    firstRun,               \* per id, the first tweet an insert statement ran for
    \* ---- one DataOrganizer.generateAnalytics call
    aPc,                    \* "idle" or "returned"
    aPosts,                 \* the tweets argument
    aPostsAfter,            \* the tweets array after the call
    aResult,                \* the analytics returned
    \* ---- the pipeline directory of one account and its DataOrganizers
    clock,                  \* Math.floor(Date.now() / 1000)
    orgNo,                  \* how many DataOrganizers have been constructed
    baseDir,                \* this.baseDir of the newest one: its epoch time
    bootPc,                 \* index of the next step of its createDirectories
    dirs,                   \* the directories there are, as <<epoch, name>>
    tokenFiles,             \* the next_token.txt files, as [dir, data]
    latestPath,             \* what the latest symlink points to, <<>> when not there
    fileOp,                 \* the last call finished: "none", "new", "get", "save", "persist"
    fileRaised,             \* TRUE when that call raised
    tokenResult,            \* what getLastNextToken returned when it was the last call,
                            \* <<>> for null
    lastSave,               \* the last saveNextToken whose write succeeded, if not undone
    dirsAtWrite             \* the directories of baseDir at the first write of saveTweets
                            \* when saveTweets was the last call, {} otherwise

lmFields == <<linkaceHost, linkaceApiKey, linkaceListId, isInitialized, apiClient,
              lmResult, lmRemote>>
lmCall   == <<lmPc, lmTweets, lmPos, linksToCreate, skippedForMissingData,
              skippedAsExisting, successfulSaves, failedSaves, checks, pushed,
              bulkPosts, bulkAnswer, callNo>>
mainVars == <<db, usernames, mainPc, idx, runs, opened>>
runVars  == <<runPc, visited, consumed, tweets, collected, srcError, profileCalls,
              feedReads, session, sinkCalls, written, runRaised>>
mainRest == <<usernames, mainPc, idx, runs, opened>>
dbCall   == <<table, dbPc, dbBatch, dbPos, dbFailed, tableAtStart, dbRepeat, dbPrevOk,
              firstRun>>
anVars   == <<aPc, aPosts, aPostsAfter, aResult>>
fileVars == <<clock, orgNo, baseDir, bootPc, dirs, tokenFiles, latestPath, fileOp,
              fileRaised, tokenResult, lastSave, dirsAtWrite>>
vars     == <<lmFields, lmCall, mainVars, runVars, dbCall, anVars, fileVars>>

----------------------------------------------------------------------------
(* Bounds of the model *)

MaxTweets == 2        \* longest tweets argument of LinkaceManager.saveTweets
MaxAccounts == 2      \* longest usernames list
MaxFeed == 3          \* most items one feed read sequence yields
NumIds == 2           \* distinct tweet ids the feed source yields
MaxBatch == 2         \* tweets in one batch handed to the store
MaxRich == 2          \* longest tweets array with every engagement field varied
MaxLean == 6          \* longest tweets array with only likes varied
MaxTimed == 2         \* longest tweets array with the timestamp varied
MaxClock == 2         \* seconds the clock goes through
MaxOrganizers == 2    \* DataOrganizers constructed for the account

----------------------------------------------------------------------------
(* Values *)

Urls == {"u1", "u2"}
\* A text is modelled by its length: 0 is "" or absent, 51 is longer than the 50
\* characters a title keeps whole.
TextLens == {0, 51}
Handles == {"", "a"}

\* A tweet as LinkaceManager.saveTweets reads it.
LinkTweets == [permanentUrl : {""} \cup Urls, text : TextLens, username : Handles]

\* The twitterHandle argument of LinkaceManager.saveTweets.
TwitterHandle == "acct"

\* LINKACE_LIST values: not set, "7", "7x", "x"
ListIds == {<<>>, <<"7">>, <<"7", "x">>, <<"x">>}

\* NaN is modelled by a number no parseInt of digits returns.
NaN == -1

DigitValue ==
    [c \in {"0", "1", "2", "3", "4", "5", "6", "7", "8", "9"} |->
        CASE c = "0" -> 0 [] c = "1" -> 1 [] c = "2" -> 2 [] c = "3" -> 3
          [] c = "4" -> 4 [] c = "5" -> 5 [] c = "6" -> 6 [] c = "7" -> 7
          [] c = "8" -> 8 [] c = "9" -> 9]

IsDigit(c) == c \in DOMAIN DigitValue

RECURSIVE DigitsValue(_, _)
DigitsValue(s, acc) ==
    IF s = <<>> \/ ~IsDigit(Head(s)) THEN acc
    ELSE DigitsValue(Tail(s), 10 * acc + DigitValue[Head(s)])

\* parseInt(s, 10): the value of the leading digits, NaN when there are none.
ParseInt(s) ==
    IF s = <<>> \/ ~IsDigit(Head(s)) THEN NaN ELSE DigitsValue(s, 0)

RECURSIVE SeqsUpTo(_, _)
SeqsUpTo(S, n) ==
    IF n = 0 THEN {<<>>}
    ELSE LET shorter == SeqsUpTo(S, n - 1)
         IN  shorter \cup {Append(s, x) : s \in {t \in shorter : Len(t) = n - 1}, x \in S}

----------------------------------------------------------------------------
(* LinkaceManager *)

\* Answers of the remote service to GET /api/v2/search/links?query=url:
\* the request fails, or a 2xx answer whose body has no data, an empty list,
\* only other links, or a link with exactly this url.
SearchResponses == {"error", "nodata", "empty", "other", "match"}

\* Answers to POST /api/v2/bulk/links: 201, another 2xx status, or a rejected request.
BulkResponses == {"201", "200", "error"}

\* Answers to GET /api/v2/lists
ListResponses == {"ok", "error"}

\* A guard that looks at the client only.
NotReadyClientOnly == apiClient = "null"

\* The guard of urlExists and saveTweets (lines 102, 136).
NotReady == ~isInitialized \/ apiClient = "null"

\* urlExists that never finds the url in the answer.
UrlExistsNever(resp) == FALSE

\* urlExists that answers "exists" when the query fails (fail closed).
UrlExistsFailClosed(resp) == resp \in {"error", "match"}

\* LinkaceManager.urlExists after its guard: the value returned for a response.
UrlExistsValue(resp) ==
    CASE resp = "error" -> FALSE
      [] resp = "nodata" -> FALSE
      [] resp = "empty" -> FALSE
      [] resp = "other" -> FALSE
      [] resp = "match" -> TRUE

\* LinkaceManager.urlExists (lines 101-128), resp the answer to its search.
UrlExists(resp) ==
    IF NotReady
    THEN /\ lmResult' = "url_threw"
         /\ lmRemote' = 0
    ELSE /\ lmResult' = IF UrlExistsValue(resp) THEN "exists" ELSE "absent"
         /\ lmRemote' = 1

\* The validation filter without its test of the username.
MissingDataNoUsername(tweet) ==
    tweet.permanentUrl = "" \/ tweet.text = 0

\* The validation filter of saveTweets (line 152).
MissingData(tweet) ==
    tweet.permanentUrl = "" \/ tweet.text = 0 \/ tweet.username = ""

\* Lines 165-166: the title is the handle and the text cut to 47 characters
\* plus "..." when it is longer than 50.
ShortDescriptionLen(textLen) == IF textLen > 50 THEN 47 + 3 ELSE textLen

\* Lines 168-175: the link pushed for a tweet.
LinkOf(tweet) ==
    [url |-> tweet.permanentUrl,
     title |-> <<tweet.username, ShortDescriptionLen(tweet.text)>>,
     description |-> tweet.text,
     tags |-> <<"source_twitter", <<"username_", TwitterHandle>>, "inject_scraper">>,
     visibility |-> 2,
     lists |-> <<ParseInt(linkaceListId)>>]

\* A check that also rejects a list id that is not set.
ListIdRequired == ParseInt(linkaceListId) = NaN

\* Lines 47-58: a list id that is not set only warns; one that is set and
\* does not parse as a number is rejected.
ListIdRejected == linkaceListId # <<>> /\ ParseInt(linkaceListId) = NaN

\* LinkaceManager.initialize (lines 33-94), resp the answer to the connection test.
LinkaceInitialize(resp) ==
    IF isInitialized
    THEN /\ lmResult' = "ok"
         /\ lmRemote' = 0
         /\ UNCHANGED <<isInitialized, apiClient>>
    ELSE IF linkaceHost = "" \/ linkaceApiKey = ""
    THEN /\ lmResult' = "threw"
         /\ lmRemote' = 0
         /\ UNCHANGED <<isInitialized, apiClient>>
    ELSE IF ListIdRejected
    THEN /\ lmResult' = "threw"
         /\ lmRemote' = 0
         /\ UNCHANGED <<isInitialized, apiClient>>
    ELSE /\ apiClient' = "client"
         /\ lmRemote' = 1
         /\ IF resp = "ok"
            THEN isInitialized' = TRUE /\ lmResult' = "ok"
            ELSE isInitialized' = FALSE /\ lmResult' = "threw"

\* LinkaceManager.close (lines 233-237)
LinkaceClose ==
    /\ isInitialized' = FALSE
    /\ apiClient' = "null"
    /\ lmResult' = "ok"
    /\ lmRemote' = 0

InCall == lmPc \in {"loop", "bulk"}

\* saveTweets up to its loop (lines 135-149)
SaveTweetsEnter ==
    /\ callNo' = IF callNo = 0 THEN 1 ELSE 2
    /\ lmPos' = 1
    /\ linksToCreate' = <<>>
    /\ skippedForMissingData' = 0
    /\ skippedAsExisting' = 0
    /\ successfulSaves' = 0
    /\ failedSaves' = 0
    /\ checks' = <<>>
    /\ pushed' = <<>>
    /\ bulkPosts' = <<>>
    /\ bulkAnswer' = "none"
    /\ lmPc' = IF NotReady THEN "threw"
               ELSE IF Len(lmTweets) = 0 THEN "returned"
               ELSE "loop"
    /\ UNCHANGED lmTweets

\* One iteration of the for loop (lines 151-176), resp the answer to the search
\* that urlExists issues for a tweet with all its data.
SaveTweetsIteration(resp) ==
    LET tweet == lmTweets[lmPos] IN
    /\ lmPos' = lmPos + 1
    /\ IF MissingData(tweet)
       THEN /\ skippedForMissingData' = skippedForMissingData + 1
            /\ UNCHANGED <<skippedAsExisting, linksToCreate, checks, pushed>>
       ELSE LET exists == UrlExistsValue(resp) IN
            /\ checks' = Append(checks, [idx |-> lmPos, resp |-> resp, exists |-> exists])
            /\ IF exists
               THEN /\ skippedAsExisting' = skippedAsExisting + 1
                    /\ UNCHANGED <<linksToCreate, pushed>>
               ELSE /\ linksToCreate' = Append(linksToCreate, LinkOf(tweet))
                    /\ pushed' = Append(pushed, lmPos)
                    /\ UNCHANGED skippedAsExisting
            /\ UNCHANGED skippedForMissingData
    /\ UNCHANGED <<lmPc, lmTweets, successfulSaves, failedSaves, bulkPosts, bulkAnswer,
                   callNo>>

\* After the loop without the test for an empty batch: the payload is always posted.
SaveTweetsAfterLoopAlwaysPosts ==
    /\ lmPc' = "bulk"
    /\ bulkPosts' = Append(bulkPosts, [models |-> linksToCreate])
    /\ UNCHANGED <<lmTweets, lmPos, linksToCreate, skippedForMissingData,
                   skippedAsExisting, successfulSaves, failedSaves, checks, pushed,
                   bulkAnswer, callNo>>

\* After the loop (lines 178-187): return, or post the bulk payload.
SaveTweetsAfterLoop ==
    /\ lmPc' = IF Len(linksToCreate) = 0 THEN "returned" ELSE "bulk"
    /\ bulkPosts' = IF Len(linksToCreate) = 0 THEN bulkPosts
                    ELSE Append(bulkPosts, [models |-> linksToCreate])
    /\ UNCHANGED <<lmTweets, lmPos, linksToCreate, skippedForMissingData,
                   skippedAsExisting, successfulSaves, failedSaves, checks, pushed,
                   bulkAnswer, callNo>>

\* The answer to the bulk post without the else branch of the status test:
\* a 2xx status other than 201 counts nothing.
SaveTweetsBulkNoElse(resp) ==
    /\ IF resp = "201"
       THEN successfulSaves' = Len(linksToCreate) /\ failedSaves' = failedSaves
       ELSE IF resp = "error"
       THEN failedSaves' = Len(linksToCreate) /\ successfulSaves' = successfulSaves
       ELSE UNCHANGED <<successfulSaves, failedSaves>>
    /\ lmPc' = "returned"
    /\ bulkAnswer' = resp
    /\ UNCHANGED <<lmTweets, lmPos, linksToCreate, skippedForMissingData,
                   skippedAsExisting, checks, pushed, bulkPosts, callNo>>

\* The answer to the bulk post with a catch that only logs: a rejected request
\* counts nothing as failed.
SaveTweetsBulkCatchOnlyLogs(resp) ==
    /\ IF resp = "201"
       THEN successfulSaves' = Len(linksToCreate) /\ failedSaves' = failedSaves
       ELSE IF resp = "error"
       THEN UNCHANGED <<successfulSaves, failedSaves>>
       ELSE failedSaves' = Len(linksToCreate) /\ successfulSaves' = successfulSaves
    /\ lmPc' = "returned"
    /\ bulkAnswer' = resp
    /\ UNCHANGED <<lmTweets, lmPos, linksToCreate, skippedForMissingData,
                   skippedAsExisting, checks, pushed, bulkPosts, callNo>>

\* The answer to the bulk post and the summary (lines 189-227).
SaveTweetsBulk(resp) ==
    /\ IF resp = "201"
       THEN successfulSaves' = Len(linksToCreate) /\ failedSaves' = failedSaves
       ELSE failedSaves' = Len(linksToCreate) /\ successfulSaves' = successfulSaves
    /\ lmPc' = "returned"
    /\ bulkAnswer' = resp
    /\ UNCHANGED <<lmTweets, lmPos, linksToCreate, skippedForMissingData,
                   skippedAsExisting, checks, pushed, bulkPosts, callNo>>

----------------------------------------------------------------------------
(* SpecLinkace: one manager, every configuration, tweets list and remote answer *)

MainIdle ==
    /\ db = "null" /\ usernames = <<>> /\ mainPc = "off" /\ idx = 0 /\ runs = <<>>
    /\ opened = [dbInit |-> 0, dbClose |-> 0, lmInit |-> 0, lmClose |-> 0]

RunIdle ==
    /\ runPc = "idle" /\ visited = {} /\ consumed = <<>> /\ tweets = <<>>
    /\ collected = <<>> /\ srcError = "none" /\ profileCalls = 0 /\ feedReads = 0
    /\ session = "pending" /\ sinkCalls = <<>> /\ written = <<>> /\ runRaised = FALSE

DbCallIdle ==
    /\ table = {} /\ dbPc = "idle" /\ dbBatch = <<>> /\ dbPos = 1 /\ dbFailed = FALSE
    /\ tableAtStart = {} /\ dbRepeat = FALSE /\ dbPrevOk = FALSE /\ firstRun = {}

FilesIdle ==
    /\ clock = 1 /\ orgNo = 0 /\ baseDir = 0 /\ bootPc = 0 /\ dirs = {}
    /\ tokenFiles = {} /\ latestPath = <<>> /\ fileOp = "none" /\ fileRaised = FALSE
    /\ tokenResult = <<>> /\ lastSave = <<>> /\ dirsAtWrite = {}

AnalyticsIdle ==
    /\ aPc = "idle" /\ aPosts = <<>> /\ aPostsAfter = <<>> /\ aResult = <<>>

CallIdle ==
    /\ lmPc = "idle" /\ lmPos = 1 /\ linksToCreate = <<>>
    /\ skippedForMissingData = 0 /\ skippedAsExisting = 0
    /\ successfulSaves = 0 /\ failedSaves = 0
    /\ checks = <<>> /\ pushed = <<>> /\ bulkPosts = <<>> /\ bulkAnswer = "none"
    /\ callNo = 0

\* The environments: every LINKACE_LIST with host and key set, and a missing
\* host or key.
Environments ==
    {e \in [host : {"", "host"}, key : {"", "key"}, list : ListIds] :
        (e.host = "" \/ e.key = "") => e.list = <<"7">>}

\* new LinkaceManager() (LinkaceManager.js:22-28)
ManagerNew ==
    /\ \E e \in Environments :
          /\ linkaceHost = e.host
          /\ linkaceApiKey = e.key
          /\ linkaceListId = e.list
    /\ isInitialized = FALSE
    /\ apiClient = "null"
    /\ lmResult = "none"
    /\ lmRemote = 0

InitLinkace ==
    /\ ManagerNew
    /\ CallIdle
    /\ lmTweets \in SeqsUpTo(LinkTweets, MaxTweets)
    /\ MainIdle
    /\ RunIdle
    /\ DbCallIdle
    /\ AnalyticsIdle
    /\ FilesIdle

HInitialize ==
    /\ ~InCall
    /\ \E resp \in ListResponses : LinkaceInitialize(resp)
    /\ UNCHANGED <<linkaceHost, linkaceApiKey, linkaceListId, lmCall, mainVars, runVars>>
    /\ UNCHANGED <<dbCall, anVars, fileVars>>

HClose ==
    /\ ~InCall
    /\ LinkaceClose
    /\ UNCHANGED <<linkaceHost, linkaceApiKey, linkaceListId, lmCall, mainVars, runVars>>
    /\ UNCHANGED <<dbCall, anVars, fileVars>>

\* urlExists called by itself, on a manager no saveTweets has returned from.
HUrlExists ==
    /\ lmPc \in {"idle", "threw"}
    /\ \E resp \in SearchResponses : UrlExists(resp)
    /\ UNCHANGED <<linkaceHost, linkaceApiKey, linkaceListId, isInitialized, apiClient,
                   lmCall, mainVars, runVars>>
    /\ UNCHANGED <<dbCall, anVars, fileVars>>

\* lmResult and lmRemote tell of initialize, close and urlExists until the
\* next saveTweets is called.
HSaveTweets ==
    /\ ~InCall
    /\ SaveTweetsEnter
    /\ lmResult' = "none"
    /\ lmRemote' = 0
    /\ UNCHANGED <<linkaceHost, linkaceApiKey, linkaceListId, isInitialized, apiClient,
                   mainVars, runVars>>
    /\ UNCHANGED <<dbCall, anVars, fileVars>>

HIteration ==
    /\ lmPc = "loop"
    /\ lmPos <= Len(lmTweets)
    /\ \E resp \in SearchResponses : SaveTweetsIteration(resp)
    /\ UNCHANGED <<lmFields, mainVars, runVars>>
    /\ UNCHANGED <<dbCall, anVars, fileVars>>

HAfterLoop ==
    /\ lmPc = "loop"
    /\ lmPos > Len(lmTweets)
    /\ SaveTweetsAfterLoop
    /\ UNCHANGED <<lmFields, mainVars, runVars>>
    /\ UNCHANGED <<dbCall, anVars, fileVars>>

HBulk ==
    /\ lmPc = "bulk"
    /\ \E resp \in BulkResponses : SaveTweetsBulk(resp)
    /\ UNCHANGED <<lmFields, mainVars, runVars>>
    /\ UNCHANGED <<dbCall, anVars, fileVars>>

NextLinkace ==
    \/ HInitialize
    \/ HClose
    \/ HUrlExists
    \/ HSaveTweets
    \/ HIteration
    \/ HAfterLoop
    \/ HBulk

SpecLinkace == InitLinkace /\ [][NextLinkace]_vars

----------------------------------------------------------------------------
(* TwitterPipeline *)

Accounts == {"a", "b"}
Ids == 1..NumIds

SessionAnswers == {"true", "false", "raise"}
ProfileAnswers == {"ok", "raise"}
WriteAnswers == {"ok", "fail"}

\* The artifacts of DataOrganizer.saveTweets in the order it writes them.
Artifacts == <<"tweets", "urls", "stats", "finetuning", "summary", "atom">>

IdsOf(s) == [i \in 1..Len(s) |-> s[i].id]

\* An array push in place of Map.set: nothing is collapsed.
MapSetPush(m, item) == Append(m, item)

\* A map that keeps the value it already has for a known key.
MapSetKeepFirst(m, item) ==
    IF \E i \in 1..Len(m) : m[i].id = item.id THEN m ELSE Append(m, item)

\* Map.prototype.set: a new key is appended, the value of a known key is
\* replaced where the key stands.
MapSet(m, item) ==
    IF \E i \in 1..Len(m) : m[i].id = item.id
    THEN [i \in 1..Len(m) |-> IF m[i].id = item.id THEN item ELSE m[i]]
    ELSE Append(m, item)

\* Array.from(map.values())
MapValues(m) == m

SetStatus(status) ==
    [runs EXCEPT ![Len(runs)] = [@ EXCEPT !.status = status]]

\* The catch of run() (TwitterPipeline.js:101-103): the error is logged.
RunCatch ==
    /\ runPc' = "failed"
    /\ runs' = SetStatus("Failed")
    /\ runRaised' = FALSE

\* The end of the try block of run() (line 100).
RunCompleted ==
    /\ runPc' = "done"
    /\ runs' = SetStatus("Done")
    /\ runRaised' = FALSE

\* verifyScraperSession without its else branch: only a raised error fails it.
SessionValidNoElse(answer) == answer # "raise"

\* verifyScraperSession (lines 35-42) on the answer of scraper.isLoggedIn.
SessionValid(answer) == answer = "true"

\* run() resumed by the answer of isLoggedIn: collectTweets starts and asks for
\* the profile, or the error goes to the catch of run().
RunVerify(answer) ==
    /\ session' = answer
    /\ IF SessionValid(answer)
       THEN /\ runPc' = "profile"
            /\ visited' = visited \cup {"collect"}
            /\ profileCalls' = profileCalls + 1
            /\ UNCHANGED <<runs, runRaised>>
       ELSE /\ RunCatch
            /\ UNCHANGED <<visited, profileCalls>>
    /\ UNCHANGED <<consumed, tweets, collected, srcError, feedReads, sinkCalls, written>>

\* processAndSaveTweets (lines 79-88) up to the first write of
\* DataOrganizer.saveTweets (DataOrganizer.js:108-117).
ProcessAndSave(list) ==
    IF Len(list) = 0
    THEN /\ RunCompleted
         /\ UNCHANGED sinkCalls
    ELSE /\ runPc' = "write"
         /\ sinkCalls' = Append(sinkCalls, "file")
         /\ UNCHANGED <<runs, runRaised>>

\* collectTweets without its catch: an error of the source reaches the catch of run().
CollectReturnNoCatch(map, error) ==
    IF error = "none"
    THEN /\ srcError' = error
         /\ collected' = MapValues(map)
         /\ visited' = visited \cup {"process"} \cup
                       (IF Len(MapValues(map)) = 0 THEN {} ELSE {"save"})
         /\ ProcessAndSave(MapValues(map))
    ELSE /\ srcError' = error
         /\ RunCatch
         /\ UNCHANGED <<collected, visited, sinkCalls>>

\* collectTweets returns (lines 67-73) and run() goes on with processAndSaveTweets.
CollectReturn(map, error) ==
    /\ srcError' = error
    /\ collected' = MapValues(map)
    /\ visited' = visited \cup {"process"} \cup
                  (IF Len(MapValues(map)) = 0 THEN {} ELSE {"save"})
    /\ ProcessAndSave(MapValues(map))

\* The answer of scraper.getProfile (lines 53-59).
RunProfile(answer) ==
    /\ IF answer = "ok"
       THEN /\ runPc' = "feed"
            /\ UNCHANGED <<srcError, collected, visited, sinkCalls, runs, runRaised>>
       ELSE CollectReturn(tweets, "profile")
    /\ UNCHANGED <<consumed, tweets, profileCalls, feedReads, session, written>>

\* The feed yields one more tweet (lines 61-66).
RunFeedItem(id) ==
    LET item == [id |-> id, n |-> Len(consumed) + 1] IN
    /\ consumed' = Append(consumed, item)
    /\ tweets' = MapSet(tweets, item)
    /\ feedReads' = feedReads + 1
    /\ UNCHANGED <<runPc, visited, collected, srcError, profileCalls, session,
                   sinkCalls, written, runs, runRaised>>

\* The feed ends ("none") or raises ("feed").
RunFeedStop(error) ==
    /\ feedReads' = feedReads + 1
    /\ CollectReturn(tweets, error)
    /\ UNCHANGED <<consumed, tweets, profileCalls, session, written>>

\* One write of DataOrganizer.saveTweets (DataOrganizer.js:111-167). The
\* fine-tuning file is written only when there is fine-tuning data (line 140);
\* a failed write or a generator that raises is rethrown (line 166) and reaches
\* the catch of run().
ArtifactIndex(name) == CHOOSE k \in 1..Len(Artifacts) : Artifacts[k] = name

NextArtifact(hasFinetuning) ==
    LET k == IF written = <<>> THEN 1 ELSE ArtifactIndex(written[Len(written)]) + 1 IN
    IF Artifacts[k] = "finetuning" /\ ~hasFinetuning THEN k + 1 ELSE k

RunWrite(answer, hasFinetuning) ==
    LET k == NextArtifact(hasFinetuning) IN
    /\ IF answer = "ok"
       THEN /\ written' = Append(written, Artifacts[k])
            /\ IF k = Len(Artifacts)
               THEN RunCompleted
               ELSE UNCHANGED <<runPc, runs, runRaised>>
       ELSE /\ RunCatch
            /\ UNCHANGED written
    /\ UNCHANGED <<visited, consumed, tweets, collected, srcError, profileCalls,
                   feedReads, session, sinkCalls>>

----------------------------------------------------------------------------
(* DatabaseManager.initialize and close, as main uses them *)

DbOpenAnswers == {"ok", "open_fails", "exec_fails"}
DbCloseAnswers == {"ok", "raise"}

\* DatabaseManager.initialize (DataOrganizer.js:419-446): TRUE when it returns.
DbInitialize(answer) ==
    IF db # "null"
    THEN db' = db
    ELSE db' = IF answer = "open_fails" THEN "null" ELSE "open"

\* An initialize that logs a failed open instead of raising it.
DbInitializeSwallows(answer) == TRUE

DbInitializeReturns(answer) == db # "null" \/ answer = "ok"

\* DatabaseManager.close (DataOrganizer.js:487-493)
DbClose(answer) ==
    db' = IF db # "null" /\ answer = "ok" THEN "null" ELSE db

DbCloseReturns(answer) == db = "null" \/ answer = "ok"

----------------------------------------------------------------------------
(* main (index.js:79-118) *)

Count(field) == [opened EXCEPT ![field] = @ + 1]

MainInitDb ==
    /\ mainPc = "init_db"
    /\ \E answer \in DbOpenAnswers :
          /\ DbInitialize(answer)
          /\ IF DbInitializeReturns(answer)
             THEN mainPc' = "init_linkace" /\ opened' = Count("dbInit")
             ELSE mainPc' = "exited" /\ UNCHANGED opened
    /\ UNCHANGED <<usernames, idx, runs, lmFields, lmCall, runVars>>
    /\ UNCHANGED <<dbCall, anVars, fileVars>>

MainInitLinkace ==
    /\ mainPc = "init_linkace"
    /\ \E resp \in ListResponses : LinkaceInitialize(resp)
    /\ IF lmResult' = "ok"
       THEN mainPc' = "loop" /\ opened' = Count("lmInit")
       ELSE mainPc' = "exited" /\ UNCHANGED opened
    /\ UNCHANGED <<linkaceHost, linkaceApiKey, linkaceListId, db, usernames, idx, runs,
                   lmCall, runVars>>
    /\ UNCHANGED <<dbCall, anVars, fileVars>>

\* new TwitterPipeline(username, scraper) and the call of run() up to its first await.
StartRun(i) ==
    /\ idx' = i
    /\ runs' = Append(runs, [idx |-> i, username |-> usernames[i], status |-> "Running"])
    /\ runPc' = "verify"
    /\ visited' = {"verify"}
    /\ consumed' = <<>>
    /\ tweets' = <<>>
    /\ collected' = <<>>
    /\ srcError' = "none"
    /\ profileCalls' = 0
    /\ feedReads' = 0
    /\ session' = "pending"
    /\ sinkCalls' = <<>>
    /\ written' = <<>>
    /\ runRaised' = FALSE

\* A loop that stops one username early.
LoopHasNextOffByOne == idx < Len(usernames) - 1

\* for (const username of usernames) (line 94)
LoopHasNext == idx < Len(usernames)

\* The for loop of main (lines 94-104): the next username, or the end of the loop.
MainLoop ==
    /\ mainPc = "loop"
    /\ IF LoopHasNext
       THEN /\ StartRun(idx + 1)
            /\ mainPc' = "running"
       ELSE /\ mainPc' = "finally_db"
            /\ UNCHANGED <<idx, runs, runVars>>
    /\ UNCHANGED <<db, usernames, opened, lmFields, lmCall>>
    /\ UNCHANGED <<dbCall, anVars, fileVars>>

\* await pipeline.run() resumes main (lines 97-101): the loop goes on whether
\* run() returned or raised.
AfterRun(raised) == "loop"

MainAfterRun ==
    /\ mainPc = "running"
    /\ runPc \in {"done", "failed"}
    /\ mainPc' = AfterRun(runRaised)
    /\ UNCHANGED <<db, usernames, idx, runs, opened, lmFields, lmCall, runVars>>
    /\ UNCHANGED <<dbCall, anVars, fileVars>>

MainCloseDb ==
    /\ mainPc = "finally_db"
    /\ \E answer \in DbCloseAnswers :
          /\ DbClose(answer)
          /\ IF DbCloseReturns(answer)
             THEN mainPc' = "finally_linkace" /\ opened' = Count("dbClose")
             ELSE mainPc' = "exited" /\ UNCHANGED opened
    /\ UNCHANGED <<usernames, idx, runs, lmFields, lmCall, runVars>>
    /\ UNCHANGED <<dbCall, anVars, fileVars>>

MainCloseLinkace ==
    /\ mainPc = "finally_linkace"
    /\ LinkaceClose
    /\ mainPc' = "ended"
    /\ opened' = Count("lmClose")
    /\ UNCHANGED <<linkaceHost, linkaceApiKey, linkaceListId, db, usernames, idx, runs,
                   lmCall, runVars>>
    /\ UNCHANGED <<dbCall, anVars, fileVars>>

PVerify ==
    /\ mainPc = "running" /\ runPc = "verify"
    /\ \E answer \in SessionAnswers : RunVerify(answer)
    /\ UNCHANGED <<db, usernames, mainPc, idx, opened, lmFields, lmCall>>
    /\ UNCHANGED <<dbCall, anVars, fileVars>>

PProfile ==
    /\ mainPc = "running" /\ runPc = "profile"
    /\ \E answer \in ProfileAnswers : RunProfile(answer)
    /\ UNCHANGED <<db, usernames, mainPc, idx, opened, lmFields, lmCall>>
    /\ UNCHANGED <<dbCall, anVars, fileVars>>

PFeedItem ==
    /\ mainPc = "running" /\ runPc = "feed"
    /\ Len(consumed) < MaxFeed
    /\ \E id \in Ids : RunFeedItem(id)
    /\ UNCHANGED <<db, usernames, mainPc, idx, opened, lmFields, lmCall>>
    /\ UNCHANGED <<dbCall, anVars, fileVars>>

PFeedStop ==
    /\ mainPc = "running" /\ runPc = "feed"
    /\ \E error \in {"none", "feed"} : RunFeedStop(error)
    /\ UNCHANGED <<db, usernames, mainPc, idx, opened, lmFields, lmCall>>
    /\ UNCHANGED <<dbCall, anVars, fileVars>>

PWrite ==
    /\ mainPc = "running" /\ runPc = "write"
    /\ \E answer \in WriteAnswers, hasFinetuning \in BOOLEAN :
          RunWrite(answer, hasFinetuning)
    /\ UNCHANGED <<db, usernames, mainPc, idx, opened, lmFields, lmCall>>
    /\ UNCHANGED <<dbCall, anVars, fileVars>>

Init ==
    /\ ManagerNew
    /\ CallIdle
    /\ lmTweets = <<>>
    /\ db = "null"
    /\ usernames \in SeqsUpTo(Accounts, MaxAccounts) \ {<<>>}
    /\ mainPc = "init_db"
    /\ idx = 0
    /\ runs = <<>>
    /\ opened = [dbInit |-> 0, dbClose |-> 0, lmInit |-> 0, lmClose |-> 0]
    /\ RunIdle
    /\ DbCallIdle
    /\ AnalyticsIdle
    /\ FilesIdle

Next ==
    \/ MainInitDb
    \/ MainInitLinkace
    \/ MainLoop
    \/ MainAfterRun
    \/ MainCloseDb
    \/ MainCloseLinkace
    \/ PVerify
    \/ PProfile
    \/ PFeedItem
    \/ PFeedStop
    \/ PWrite

Spec == Init /\ [][Next]_vars

----------------------------------------------------------------------------
(* DatabaseManager.saveTweets (DataOrganizer.js:452-482) *)

\* A count the scraper did not deliver (undefined or null).
Absent == -1

DbIds == {"t1", "t2"}
DbLikes == {Absent, 5}

\* The tweets handed to the store: the id and, standing for the seven
\* content columns, the likes count.
DbTweets == [id : DbIds, likes : DbLikes]

\* x || 0 of a count (DataOrganizer.js:469-471).
OrZero(x) == IF x = Absent THEN 0 ELSE x

\* The parameters bound by stmt.run (DataOrganizer.js:464-473).
RowOf(tweet) == [id |-> tweet.id, likes |-> OrZero(tweet.likes)]

InsertOrReplace(rows, row) == {r \in rows : r.id # row.id} \cup {row}

\* INSERT OR IGNORE into a table whose primary key is id
\* (DataOrganizer.js:429-430, 457-460).
InsertOrIgnore(rows, row) ==
    IF \E r \in rows : r.id = row.id THEN rows ELSE rows \cup {row}

PrepareAnswers == {"ok", "raise"}
RunAnswers == {"ok", "raise"}
FinalizeAnswers == {"ok", "raise"}

InDbCall == dbPc \in {"insert", "finalize"}

\* The loop of saveTweets is over when no tweet is left.
AfterInsert(pos) == IF pos > Len(dbBatch) THEN "finalize" ELSE "insert"

\* saveTweets up to the for loop: the guard and db.prepare, both outside the
\* try (DataOrganizer.js:453-462).
DbSaveTweetsEnter(batch, answer) ==
    /\ dbBatch' = batch
    /\ dbPos' = 1
    /\ dbFailed' = FALSE
    /\ tableAtStart' = table
    /\ dbPc' = IF db = "null" \/ answer = "raise"
               THEN "threw"
               ELSE IF Len(batch) = 0 THEN "finalize" ELSE "insert"
    /\ UNCHANGED table

\* One iteration of the for loop: stmt.run resolves, or rejects and the catch
\* around the whole loop ends it (DataOrganizer.js:463-478).
DbSaveTweetsRun(answer) ==
    IF answer = "ok"
    THEN /\ table' = InsertOrIgnore(table, RowOf(dbBatch[dbPos]))
         /\ dbPos' = dbPos + 1
         /\ dbPc' = AfterInsert(dbPos + 1)
         /\ UNCHANGED dbFailed
    ELSE /\ dbFailed' = TRUE
         /\ dbPc' = "finalize"
         /\ UNCHANGED <<table, dbPos>>

\* finally: stmt.finalize, whose rejection leaves the call
\* (DataOrganizer.js:479-481).
DbSaveTweetsFinalize(answer) ==
    /\ dbPc' = IF answer = "ok" THEN "returned" ELSE "threw"
    /\ UNCHANGED <<table, dbPos, dbFailed>>

----------------------------------------------------------------------------
(* SpecDb: one DatabaseManager, every sequence of calls and store answers *)

Batches == SeqsUpTo(DbTweets, MaxBatch)

otherThanDb == <<lmFields, lmCall, mainRest, runVars, anVars, fileVars>>

InitDb ==
    /\ ManagerNew
    /\ linkaceHost = "host" /\ linkaceApiKey = "key" /\ linkaceListId = <<"7">>
    /\ CallIdle
    /\ lmTweets = <<>>
    /\ MainIdle
    /\ RunIdle
    /\ DbCallIdle
    /\ AnalyticsIdle
    /\ FilesIdle

DInitialize ==
    /\ ~InDbCall
    /\ \E answer \in DbOpenAnswers : DbInitialize(answer)
    /\ UNCHANGED <<dbCall, otherThanDb>>

DClose ==
    /\ ~InDbCall
    /\ \E answer \in DbCloseAnswers : DbClose(answer)
    /\ UNCHANGED <<dbCall, otherThanDb>>

DSaveTweets ==
    /\ ~InDbCall
    /\ \E batch \in Batches, answer \in PrepareAnswers :
          /\ DbSaveTweetsEnter(batch, answer)
          /\ dbRepeat' = (dbPc # "idle" /\ batch = dbBatch)
    /\ dbPrevOk' = (dbPc = "returned" /\ ~dbFailed)
    /\ UNCHANGED <<firstRun, db, otherThanDb>>

DRun ==
    /\ dbPc = "insert"
    /\ \E answer \in RunAnswers :
          /\ DbSaveTweetsRun(answer)
          /\ firstRun' = IF answer = "ok" /\ ~\E t \in firstRun : t.id = dbBatch[dbPos].id
                         THEN firstRun \cup {dbBatch[dbPos]}
                         ELSE firstRun
    /\ UNCHANGED <<dbBatch, tableAtStart, dbRepeat, dbPrevOk, db, otherThanDb>>

DFinalize ==
    /\ dbPc = "finalize"
    /\ \E answer \in FinalizeAnswers : DbSaveTweetsFinalize(answer)
    /\ UNCHANGED <<dbBatch, tableAtStart, dbRepeat, dbPrevOk, firstRun, db, otherThanDb>>

NextDb ==
    \/ DInitialize
    \/ DClose
    \/ DSaveTweets
    \/ DRun
    \/ DFinalize

SpecDb == InitDb /\ [][NextDb]_vars

----------------------------------------------------------------------------
(* DataOrganizer.generateAnalytics (DataOrganizer.js:175-268) *)

\* A timestamp the scraper delivered as null.
Null == -2

\* topTweets keeps the first five (slice(0, 5)).
TopN == 5

\* text.slice(0, 100)
TextCut == 100

MsPerDay == 86400000

\* A filter that lets the retweets through.
KeepRetweets(ts) == ts

\* Array.prototype.filter with the test of line 216: a new array of the
\* tweets that are not retweets, in their order.
RECURSIVE NotRetweets(_)
NotRetweets(ts) ==
    IF ts = <<>> THEN <<>>
    ELSE IF Head(ts).isRetweet THEN NotRetweets(Tail(ts))
    ELSE <<Head(ts)>> \o NotRetweets(Tail(ts))

\* tweets.filter(test).length, by the test (lines 220-222)
DirectTweets(ts) == Cardinality({i \in 1..Len(ts) : ~ts[i].isReply /\ ~ts[i].isRetweet})
Replies(ts) == Cardinality({i \in 1..Len(ts) : ts[i].isReply})
Retweets(ts) == Cardinality({i \in 1..Len(ts) : ts[i].isRetweet})

\* reduce((sum, t) => sum + (t.field || 0), 0), by the field
RECURSIVE SumLikes(_)
SumLikes(ts) ==
    IF ts = <<>> THEN 0 ELSE SumLikes(SubSeq(ts, 1, Len(ts) - 1)) + OrZero(ts[Len(ts)].likes)

RECURSIVE SumRetweetCount(_)
SumRetweetCount(ts) ==
    IF ts = <<>> THEN 0
    ELSE SumRetweetCount(SubSeq(ts, 1, Len(ts) - 1)) + OrZero(ts[Len(ts)].retweetCount)

RECURSIVE SumReplies(_)
SumReplies(ts) ==
    IF ts = <<>> THEN 0
    ELSE SumReplies(SubSeq(ts, 1, Len(ts) - 1)) + OrZero(ts[Len(ts)].replies)

\* (sum / n).toFixed(2), as a number of hundredths: the quotient rounded to
\* two decimals, and NaN for 0 / 0 (toFixed gives the string "NaN").
ToFixed2(sum, n) == IF n = 0 THEN NaN ELSE (200 * sum + n) \div (2 * n)

\* A comparator that sorts by likes ascending.
CompareLikesAscending(a, b) == OrZero(a.likes) - OrZero(b.likes)

\* The comparator of the sort (line 241): negative when a goes before b.
CompareLikes(a, b) == OrZero(b.likes) - OrZero(a.likes)

\* t put behind the last element of the sorted array that does not go after it.
InsertStable(sorted, t) ==
    LET ahead == {i \in 1..Len(sorted) : CompareLikes(sorted[i], t) <= 0}
        k == IF ahead = {} THEN 0 ELSE CHOOSE i \in ahead : \A j \in ahead : j <= i
    IN  SubSeq(sorted, 1, k) \o <<t>> \o SubSeq(sorted, k + 1, Len(sorted))

\* Array.prototype.sort with CompareLikes: a stable sort.
RECURSIVE SortByLikes(_)
SortByLikes(ts) ==
    IF ts = <<>> THEN <<>>
    ELSE InsertStable(SortByLikes(SubSeq(ts, 1, Len(ts) - 1)), ts[Len(ts)])

\* slice(0, n)
Slice(ts, n) == SubSeq(ts, 1, IF Len(ts) < n THEN Len(ts) ELSE n)

\* The entry of topTweets for a tweet (lines 243-249).
TopEntry(t) ==
    [id |-> t.id,
     text |-> IF t.text < TextCut THEN t.text ELSE TextCut,
     likes |-> t.likes,
     retweetCount |-> t.retweetCount,
     url |-> t.permanentUrl]

\* topTweets (lines 240-249)
TopTweets(engaged) ==
    LET top == Slice(SortByLikes(engaged), TopN)
    IN  [i \in 1..Len(top) |-> TopEntry(top[i])]

\* The timestamps of the tweets whose timestamp !== null, sorted (lines
\* 203-214); sort puts the undefined ones last.
ValidDates(ts) == {ts[i].timestamp : i \in 1..Len(ts)} \ {Null}

\* What format gives for an Invalid Date in a date-fns that does not throw.
InvalidDate == -1

\* The date-fns the program is installed with: format throws a RangeError on
\* an Invalid Date, or returns the text 'Invalid Date'.
FormatBuilds == {"throws", "invalid_date"}

\* format(new Date(timestamp), 'yyyy-MM-dd'), as the number of the day;
\* new Date(undefined) is an Invalid Date.
FormatDay(timestamp) ==
    IF timestamp = Absent THEN InvalidDate ELSE timestamp \div MsPerDay

\* validDates[0]: sort puts the undefined timestamps last.
FirstDate(dates) ==
    IF dates \ {Absent} = {} THEN Absent
    ELSE CHOOSE d \in dates \ {Absent} : \A e \in dates \ {Absent} : d <= e

\* validDates[validDates.length - 1]
LastDate(dates) ==
    IF Absent \in dates THEN Absent
    ELSE CHOOSE d \in dates : \A e \in dates : d >= e

\* timeRange (lines 251-258): <<>> stands for 'N/A'.
TimeRange(ts) ==
    IF ValidDates(ts) = {}
    THEN [start |-> <<>>, end |-> <<>>]
    ELSE [start |-> <<FormatDay(FirstDate(ValidDates(ts)))>>,
          end |-> <<FormatDay(LastDate(ValidDates(ts)))>>]

\* format is handed an Invalid Date: the last of the sorted dates is
\* undefined when any is.
AnalyticsRaises(ts) == ts # <<>> /\ Absent \in ValidDates(ts)

HasImages(t) == t.photos # Absent /\ t.photos > 0
HasVideos(t) == t.videos # Absent /\ t.videos > 0
HasLinks(t) == t.urls # Absent /\ t.urls > 0
TextOnly(t) == ~HasImages(t) /\ ~HasVideos(t) /\ ~HasLinks(t)

\* The value generateAnalytics returns for the empty array (lines 176-201).
ZeroAnalytics ==
    [totalTweets |-> 0, directTweets |-> 0, replies |-> 0, retweets |-> 0,
     engagement |-> [totalLikes |-> 0, totalRetweetCount |-> 0, totalReplies |-> 0,
                     averageLikes |-> 0, topTweets |-> <<>>],
     timeRange |-> [start |-> <<>>, end |-> <<>>],
     contentTypes |-> [withImages |-> 0, withVideos |-> 0, withLinks |-> 0, textOnly |-> 0]]

\* The value returned for an array that is not empty (lines 203-267).
AnalyticsOf(ts) ==
    LET tweetsForEngagement == NotRetweets(ts) IN
    [totalTweets |-> Len(ts),
     directTweets |-> DirectTweets(ts),
     replies |-> Replies(ts),
     retweets |-> Retweets(ts),
     engagement |-> [totalLikes |-> SumLikes(tweetsForEngagement),
                     totalRetweetCount |-> SumRetweetCount(tweetsForEngagement),
                     totalReplies |-> SumReplies(tweetsForEngagement),
                     averageLikes |-> ToFixed2(SumLikes(tweetsForEngagement),
                                               Len(tweetsForEngagement)),
                     topTweets |-> TopTweets(tweetsForEngagement)],
     timeRange |-> TimeRange(ts),
     contentTypes |-> [withImages |-> Cardinality({i \in 1..Len(ts) : HasImages(ts[i])}),
                       withVideos |-> Cardinality({i \in 1..Len(ts) : HasVideos(ts[i])}),
                       withLinks |-> Cardinality({i \in 1..Len(ts) : HasLinks(ts[i])}),
                       textOnly |-> Cardinality({i \in 1..Len(ts) : TextOnly(ts[i])})]]

\* generateAnalytics without its branch for the empty array.
GenerateAnalyticsNoEmptyBranch(ts) == AnalyticsOf(ts)

\* The value generateAnalytics returns (lines 175-268).
GenerateAnalytics(ts) ==
    IF Len(ts) = 0 THEN ZeroAnalytics ELSE AnalyticsOf(ts)

\* The tweets array after the call: filter, map and reduce build new values
\* and sort works on the array filter returned.
TweetsAfterAnalytics(ts) == ts

----------------------------------------------------------------------------
(* SpecAnalytics: generateAnalytics on every tweets array of three families *)

\* A tweet of the array: the fields generateAnalytics reads, text as its length.
Post(i, likes, retweetCount, replies, isRetweet, isReply) ==
    [id |-> i, text |-> 120, permanentUrl |-> "u1", likes |-> likes,
     retweetCount |-> retweetCount, replies |-> replies,
     isRetweet |-> isRetweet, isReply |-> isReply,
     timestamp |-> MsPerDay, photos |-> Absent, videos |-> Absent, urls |-> 0]

EngagementKinds ==
    [likes : {Absent, 2}, retweetCount : {Absent, 3}, replies : {Absent, 4},
     isRetweet : BOOLEAN, isReply : BOOLEAN]

LeanKinds ==
    [likes : {Absent, 1, 2}, retweetCount : {Absent}, replies : {Absent},
     isRetweet : {FALSE}, isReply : {FALSE}]
    \cup [likes : {9}, retweetCount : {Absent}, replies : {Absent},
          isRetweet : {TRUE}, isReply : {FALSE}]

PostsOf(kinds) ==
    [i \in 1..Len(kinds) |->
        Post(i, kinds[i].likes, kinds[i].retweetCount, kinds[i].replies,
             kinds[i].isRetweet, kinds[i].isReply)]

ExamplePosts ==
    <<Post(1, 10, Absent, Absent, FALSE, FALSE),
      Post(2, 50, Absent, Absent, FALSE, FALSE),
      Post(3, 999, Absent, Absent, TRUE, FALSE)>>

\* A tweet with a timestamp that is null, not there, or a time.
TimedPost(i, timestamp) ==
    [Post(i, 1, Absent, Absent, FALSE, FALSE) EXCEPT !.timestamp = timestamp]

Timestamps == {Null, Absent, MsPerDay, 3 * MsPerDay + 5}

TimedPostsOf(times) == [i \in 1..Len(times) |-> TimedPost(i, times[i])]

PostLists ==
    {PostsOf(k) : k \in SeqsUpTo(EngagementKinds, MaxRich)}
    \cup {TimedPostsOf(k) : k \in SeqsUpTo(Timestamps, MaxTimed)}
    \cup {PostsOf(k) : k \in SeqsUpTo(LeanKinds, MaxLean)}
    \cup {ExamplePosts}

otherThanAnalytics == <<lmFields, lmCall, mainVars, runVars, dbCall, fileVars>>

InitAnalytics ==
    /\ ManagerNew
    /\ linkaceHost = "host" /\ linkaceApiKey = "key" /\ linkaceListId = <<"7">>
    /\ CallIdle
    /\ lmTweets = <<>>
    /\ MainIdle
    /\ RunIdle
    /\ DbCallIdle
    /\ aPc = "idle"
    /\ aPosts \in PostLists
    /\ aPostsAfter = aPosts
    /\ aResult = <<>>
    /\ FilesIdle

AGenerate ==
    /\ aPc = "idle"
    /\ \E build \in FormatBuilds :
          IF AnalyticsRaises(aPosts) /\ build = "throws"
          THEN aPc' = "threw" /\ aResult' = <<>>
          ELSE aPc' = "returned" /\ aResult' = <<GenerateAnalytics(aPosts)>>
    /\ aPostsAfter' = TweetsAfterAnalytics(aPosts)
    /\ UNCHANGED <<aPosts, otherThanAnalytics>>

NextAnalytics == AGenerate

SpecAnalytics == InitAnalytics /\ [][NextAnalytics]_vars

----------------------------------------------------------------------------
(* DataOrganizer: constructor, createDirectories, next_token (DataOrganizer.js:9-101) *)

\* The characters of a next_token: a letter and a blank.
TokenChars == {"a", " "}

\* A read that returns the data as it is in the file.
NoTrim(str) == str

\* String.prototype.trim
RECURSIVE TrimStart(_)
TrimStart(str) ==
    IF str # <<>> /\ Head(str) = " " THEN TrimStart(Tail(str)) ELSE str

RECURSIVE TrimEnd(_)
TrimEnd(str) ==
    IF str # <<>> /\ str[Len(str)] = " " THEN TrimEnd(SubSeq(str, 1, Len(str) - 1)) ELSE str

Trim(str) == TrimEnd(TrimStart(str))

\* The steps of createDirectories (lines 23-45): five mkdir, unlink, symlink.
BootSteps == <<"raw", "processed", "analytics", "exports", "meta", "unlink", "symlink">>
BootDone == Len(BootSteps) + 1

FsAnswers == {"ok", "fail"}

\* The constructor (lines 9-16): baseDir ends in the epoch time in seconds,
\* and createDirectories is started and not awaited.
Constructor(epochTime) ==
    /\ baseDir' = epochTime
    /\ bootPc' = 1
    /\ orgNo' = orgNo + 1

\* One awaited call of createDirectories returns or raises into its catch.
CreateDirectoriesStep(answer) ==
    /\ bootPc' = bootPc + 1
    /\ IF bootPc <= 5
       THEN /\ dirs' = IF answer = "ok" THEN dirs \cup {<<baseDir, BootSteps[bootPc]>>}
                       ELSE dirs
            /\ UNCHANGED latestPath
       ELSE IF BootSteps[bootPc] = "unlink"
       THEN /\ latestPath' = IF answer = "ok" THEN <<>> ELSE latestPath
            /\ UNCHANGED dirs
       ELSE /\ latestPath' = IF latestPath = <<>> /\ answer = "ok" THEN <<baseDir>>
                             ELSE latestPath
            /\ UNCHANGED dirs

\* The next_token.txt of a run directory, if there is one.
TokenFileOf(dir) == {f \in tokenFiles : f.dir = dir}

\* getLastNextToken (lines 77-87): readFile raises when the file is not there.
GetLastNextToken ==
    IF TokenFileOf(baseDir) = {}
    THEN <<>>
    ELSE LET trimmed == Trim((CHOOSE f \in TokenFileOf(baseDir) : TRUE).data)
         IN  IF trimmed = <<>> THEN <<>> ELSE <<trimmed>>

\* fs.writeFile on next_token.txt: it needs the meta directory.
WriteToken(nextToken, answer) ==
    IF <<baseDir, "meta">> \notin dirs \/ answer = "fail"
    THEN tokenFiles
    ELSE (tokenFiles \ TokenFileOf(baseDir)) \cup {[dir |-> baseDir, data |-> nextToken]}

TokenWritten(answer) == <<baseDir, "meta">> \in dirs /\ answer = "ok"

\* The run directory this DataOrganizer reads and writes (getPaths, lines 51-71).
RunDirs == {d \in dirs : d[1] = baseDir}

\* The first writeFile of saveTweets (lines 111-117) needs the raw directory.
FirstWriteDone(answer) == <<baseDir, "raw">> \in dirs /\ answer = "ok"

----------------------------------------------------------------------------
(* SpecFiles: the DataOrganizers of one account, one after the other *)

\* The next_tokens saved: a blank one, a plain one and one with a blank behind.
Tokens == {<<" ">>, <<"a">>, <<"a", " ">>}

otherThanFiles == <<lmFields, lmCall, mainVars, runVars, dbCall, anVars>>

InitFiles ==
    /\ ManagerNew
    /\ linkaceHost = "host" /\ linkaceApiKey = "key" /\ linkaceListId = <<"7">>
    /\ CallIdle
    /\ lmTweets = <<>>
    /\ MainIdle
    /\ RunIdle
    /\ DbCallIdle
    /\ AnalyticsIdle
    /\ FilesIdle

\* A second of the clock passes.
FTick ==
    /\ clock < MaxClock
    /\ clock' = clock + 1
    /\ UNCHANGED <<orgNo, baseDir, bootPc, dirs, tokenFiles, latestPath, fileOp,
                   fileRaised, tokenResult, lastSave, dirsAtWrite, otherThanFiles>>

\* new DataOrganizer('pipeline', username), by the next pipeline of the account.
FNew ==
    /\ orgNo < MaxOrganizers
    /\ orgNo = 0 \/ bootPc = BootDone
    /\ Constructor(clock)
    /\ fileOp' = "new"
    /\ fileRaised' = FALSE
    /\ tokenResult' = <<>>
    /\ dirsAtWrite' = {}
    /\ UNCHANGED <<clock, dirs, tokenFiles, latestPath, lastSave, otherThanFiles>>

\* The answers of the file system to a step of createDirectories: a run
\* directory in which one mkdir fails is one in which every mkdir fails.
BootAnswers ==
    IF bootPc > 5 THEN FsAnswers
    ELSE {a \in FsAnswers : IF a = "fail" THEN RunDirs = {}
                                          ELSE Cardinality(RunDirs) >= bootPc - 1}

FBoot ==
    /\ orgNo > 0 /\ bootPc < BootDone
    /\ \E answer \in BootAnswers : CreateDirectoriesStep(answer)
    /\ UNCHANGED <<clock, orgNo, baseDir, tokenFiles, fileOp, fileRaised,
                   tokenResult, lastSave, dirsAtWrite, otherThanFiles>>

FGetToken ==
    /\ orgNo > 0
    /\ tokenResult' = GetLastNextToken
    /\ fileOp' = "get"
    /\ fileRaised' = FALSE
    /\ dirsAtWrite' = {}
    /\ UNCHANGED <<clock, orgNo, baseDir, bootPc, dirs, tokenFiles, latestPath,
                   lastSave, otherThanFiles>>

FSaveToken ==
    /\ orgNo > 0
    /\ \E nextToken \in Tokens, answer \in FsAnswers :
          /\ tokenFiles' = WriteToken(nextToken, answer)
          /\ lastSave' = IF TokenWritten(answer)
                         THEN <<[token |-> nextToken, org |-> orgNo]>>
                         ELSE <<>>
    /\ fileOp' = "save"
    /\ fileRaised' = FALSE
    /\ tokenResult' = <<>>
    /\ dirsAtWrite' = {}
    /\ UNCHANGED <<clock, orgNo, baseDir, bootPc, dirs, latestPath, otherThanFiles>>

FPersist ==
    /\ orgNo > 0
    /\ \E answer \in FsAnswers : fileRaised' = ~FirstWriteDone(answer)
    /\ dirsAtWrite' = RunDirs
    /\ fileOp' = "persist"
    /\ tokenResult' = <<>>
    /\ UNCHANGED <<clock, orgNo, baseDir, bootPc, dirs, tokenFiles, latestPath,
                   lastSave, otherThanFiles>>

NextFiles ==
    \/ FTick
    \/ FNew
    \/ FBoot
    \/ FGetToken
    \/ FSaveToken
    \/ FPersist

SpecFiles == InitFiles /\ [][NextFiles]_vars

----------------------------------------------------------------------------
(* Properties *)

Range(s) == {s[i] : i \in 1..Len(s)}

\* A post that has its permanentUrl, its text and its author handle.
Complete(tweet) == tweet.permanentUrl # "" /\ tweet.text > 0 /\ tweet.username # ""

CompleteIdx(n) == {i \in 1..n : Complete(lmTweets[i])}

\* The ids of a sequence in the order of their first occurrence.
RECURSIVE FirstIds(_, _)
FirstIds(s, seen) ==
    IF s = <<>> THEN <<>>
    ELSE IF Head(s) \in seen THEN FirstIds(Tail(s), seen)
    ELSE <<Head(s)>> \o FirstIds(Tail(s), seen \cup {Head(s)})

\* C1: when LinkaceManager.saveTweets finishes, created + failed +
\* skippedMissingData + skippedExisting equals the number of input posts, for
\* every input list (the empty one included) and every remote answer.
C1_CountsSumToInput ==
    lmPc = "returned" =>
        successfulSaves + failedSaves + skippedForMissingData + skippedAsExisting
            = Len(lmTweets)

C1_Witness ==
    /\ lmPc = "returned"
    /\ Len(lmTweets) = 2
    /\ skippedForMissingData = 1
    /\ failedSaves = 1
    /\ Len(bulkPosts) = 1

\* C2: the list collectTweets returns holds each distinct id of the consumed
\* items exactly once and no other id, in the order of each id's first
\* occurrence in the source sequence; it is no longer than the items consumed.
C2_CollectDeduplicates ==
    "process" \in visited =>
        /\ IdsOf(collected) = FirstIds(IdsOf(consumed), {})
        /\ Len(collected) <= Len(consumed)

C2_Witness ==
    /\ "process" \in visited
    /\ IdsOf(consumed) = <<1, 2, 1>>
    /\ IdsOf(collected) = <<1, 2>>

\* C3: when the feed raises after k items, or the profile lookup raises, the
\* error is not propagated: collectTweets returns the deduplicated list of the
\* k items consumed (empty for k = 0) and run() goes on with
\* processAndSaveTweets; the run fails only if the persisting then fails.
C3_SourceErrorKeepsPartial ==
    srcError # "none" =>
        /\ "process" \in visited
        /\ ~runRaised
        /\ IdsOf(collected) = FirstIds(IdsOf(consumed), {})
        /\ (consumed = <<>> => collected = <<>> /\ runPc = "done")
        /\ (srcError = "profile" => consumed = <<>> /\ feedReads = 0)
        /\ (collected # <<>> => sinkCalls # <<>>)
        /\ (runPc = "failed" => "save" \in visited)

C3_Witness ==
    /\ srcError = "feed"
    /\ Len(consumed) = 2
    /\ Len(collected) = 2
    /\ runPc = "done"

\* C4 (as claimed): a run with a non-empty collection invokes the file
\* exporter, the relational sink and the link tracking sink, one after the
\* other, whatever the outcome of the sinks before.
C4_AllSinksInvoked ==
    (runPc \in {"done", "failed"} /\ "process" \in visited /\ collected # <<>>) =>
        sinkCalls = <<"file", "db", "linkace">>

\* C5 (as claimed): a run whose verification and collection succeeded ends as
\* completed, also when a sink write fails.
C5_PersistFailureNotFatal ==
    (session = "true" /\ "process" \in visited /\ runPc \in {"done", "failed"}) =>
        runPc = "done"

\* C6: when isLoggedIn answers false or raises, the run fails without a
\* profile lookup, a feed read or a sink write, never enters the collecting or
\* persisting steps, and run() does not raise to main.
C6_InvalidSessionFailsRun ==
    session \in {"false", "raise"} =>
        /\ runPc = "failed"
        /\ runs[Len(runs)].status = "Failed"
        /\ visited = {"verify"}
        /\ profileCalls = 0
        /\ feedReads = 0
        /\ sinkCalls = <<>>
        /\ written = <<>>
        /\ ~runRaised

C6_Witness ==
    /\ session = "false"
    /\ runPc = "failed"
    /\ mainPc = "loop"

\* C7: every account of the list gets exactly one run, the runs start in input
\* order, a run starts only when the run before it is done or failed, and a
\* failed run does not keep the following ones from starting.
C7_SequentialBatch ==
    /\ Len(runs) = idx
    /\ \A k \in 1..Len(runs) :
          /\ runs[k].idx = k
          /\ runs[k].username = usernames[k]
          /\ (k < Len(runs) => runs[k].status \in {"Done", "Failed"})
    /\ (mainPc \in {"loop", "finally_db", "finally_linkace", "ended"} =>
          \A k \in 1..Len(runs) : runs[k].status \in {"Done", "Failed"})
    /\ (mainPc \in {"finally_db", "finally_linkace", "ended"} =>
          Len(runs) = Len(usernames))

C7_Witness ==
    /\ mainPc = "ended"
    /\ Len(runs) = 2
    /\ runs[1].status = "Failed"
    /\ runs[2].status = "Done"

AllMatch == \A k \in 1..Len(checks) : checks[k].resp = "match"

\* C8 (as claimed): a second call with the same N posts, every existence check
\* answering "exists", posts nothing and ends with created = 0 and
\* skippedExisting = N.
C8_SecondCallSkipsAll ==
    (lmPc = "returned" /\ callNo >= 2 /\ AllMatch) =>
        /\ bulkPosts = <<>>
        /\ successfulSaves = 0
        /\ skippedAsExisting = Len(lmTweets)

\* C8 (amended): such a second call posts nothing and ends with created = 0,
\* failed = 0 and skippedExisting = the number of posts that have their
\* permanentUrl, text and author handle; the others are in skippedMissingData.
C8_SecondCallSkipsComplete ==
    (lmPc = "returned" /\ callNo >= 2 /\ AllMatch) =>
        /\ bulkPosts = <<>>
        /\ successfulSaves = 0
        /\ failedSaves = 0
        /\ skippedAsExisting = Cardinality(CompleteIdx(Len(lmTweets)))
        /\ skippedForMissingData = Len(lmTweets) - Cardinality(CompleteIdx(Len(lmTweets)))

C8_Witness ==
    /\ lmPc = "returned"
    /\ callNo = 2
    /\ AllMatch
    /\ Len(lmTweets) = 2
    /\ skippedAsExisting = 1
    /\ skippedForMissingData = 1

\* C9: a failed existence query does not abort saveTweets and does not skip
\* the post: the post counts as not existing, is not in skippedExisting and is
\* in the bulk payload; the posts after it are still checked.
C9_QueryFailureFailsOpen ==
    /\ skippedAsExisting = Cardinality({k \in 1..Len(checks) : checks[k].resp = "match"})
    /\ \A k \in 1..Len(checks) :
          checks[k].resp = "error" =>
             /\ lmPc # "threw"
             /\ ~checks[k].exists
             /\ \E j \in 1..Len(pushed) :
                   /\ pushed[j] = checks[k].idx
                   /\ linksToCreate[j].url = lmTweets[checks[k].idx].permanentUrl
             /\ (lmPc \in {"bulk", "returned"} =>
                   /\ Len(bulkPosts) = 1
                   /\ bulkPosts[1].models = linksToCreate
                   /\ \A i \in CompleteIdx(Len(lmTweets)) :
                         \E c \in Range(checks) : c.idx = i)

C9_Witness ==
    /\ lmPc = "returned"
    /\ Len(checks) = 2
    /\ checks[1].resp = "error"
    /\ checks[2].resp = "match"
    /\ successfulSaves = 1

\* C10: a post without permanentUrl, text or author handle is counted once in
\* skippedMissingData, is never queried for existence and never is in the bulk
\* payload; every other post is queried exactly once.
C10_MissingDataSkipped ==
    LET done == IF InCall \/ lmPc = "returned" THEN lmPos - 1 ELSE 0 IN
    /\ skippedForMissingData = done - Cardinality(CompleteIdx(done))
    /\ \A i \in 1..done :
          Cardinality({k \in 1..Len(checks) : checks[k].idx = i})
             = IF Complete(lmTweets[i]) THEN 1 ELSE 0
    /\ \A j \in 1..Len(pushed) : Complete(lmTweets[pushed[j]])
    /\ Len(linksToCreate) = Len(pushed)
    /\ \A p \in Range(bulkPosts) : p.models = linksToCreate
    /\ (lmPc \in {"bulk", "returned"} /\ Len(lmTweets) > 0 => done = Len(lmTweets))

C10_Witness ==
    /\ lmPc = "returned"
    /\ Len(lmTweets) = 2
    /\ lmTweets[1].username = ""
    /\ lmTweets[1].permanentUrl # ""
    /\ lmTweets[1].text > 0
    /\ Len(checks) = 1
    /\ skippedForMissingData = 1
    /\ successfulSaves = 1

\* The indices of the posts that have all their data and whose existence check
\* did not answer "exists", in input order.
RECURSIVE Ascending(_)
Ascending(S) ==
    IF S = {} THEN <<>>
    ELSE LET m == CHOOSE x \in S : \A y \in S : x <= y
         IN  <<m>> \o Ascending(S \ {m})

Survivors ==
    Ascending({i \in CompleteIdx(Len(lmTweets)) :
                  \E c \in Range(checks) : c.idx = i /\ c.resp # "match"})

\* C11: one saveTweets call posts at most one bulk payload, only when the
\* existence checks of all input posts are done; the payload holds exactly the
\* survivors in input order, and nothing is posted when there is no survivor.
C11_OneBulkPostOfSurvivors ==
    /\ Len(bulkPosts) <= 1
    /\ (Len(bulkPosts) = 1 =>
          /\ lmPos = Len(lmTweets) + 1
          /\ \A i \in CompleteIdx(Len(lmTweets)) : \E c \in Range(checks) : c.idx = i
          /\ Survivors # <<>>
          /\ Len(bulkPosts[1].models) = Len(Survivors)
          /\ \A j \in 1..Len(Survivors) :
                /\ bulkPosts[1].models[j].url = lmTweets[Survivors[j]].permanentUrl
                /\ bulkPosts[1].models[j].description = lmTweets[Survivors[j]].text)
    /\ (lmPc = "returned" /\ Len(lmTweets) > 0 =>
          Len(bulkPosts) = IF Survivors = <<>> THEN 0 ELSE 1)

C11_Witness ==
    /\ lmPc = "returned"
    /\ Len(lmTweets) = 2
    /\ Len(bulkPosts) = 1
    /\ Len(bulkPosts[1].models) = 2
    /\ bulkPosts[1].models[1].url = "u2"
    /\ bulkPosts[1].models[2].url = "u1"

\* C12: when the bulk post raises (a rejected request, a non-2xx status) every
\* survivor is counted as failed and none as created; in every outcome created
\* and failed are each 0 or the batch size and never both non-zero.
C12_BulkAllOrNothing ==
    lmPc = "returned" =>
        /\ (bulkAnswer = "error" =>
               failedSaves = Len(linksToCreate) /\ failedSaves > 0 /\ successfulSaves = 0)
        /\ successfulSaves \in {0, Len(linksToCreate)}
        /\ failedSaves \in {0, Len(linksToCreate)}
        /\ ~(successfulSaves > 0 /\ failedSaves > 0)
        /\ (bulkAnswer # "none" => successfulSaves + failedSaves = Len(bulkPosts[1].models))

C12_Witness ==
    /\ lmPc = "returned"
    /\ bulkAnswer = "error"
    /\ failedSaves = 2
    /\ successfulSaves = 0

\* The part of C13 that holds of every call: at most one row per post id, and
\* the row of an id is the one of the first insert that ran for it.
FirstWriterWins ==
    /\ \A r1, r2 \in table : r1.id = r2.id => r1 = r2
    /\ \A t1, t2 \in firstRun : t1.id = t2.id => t1 = t2
    /\ {r.id : r \in table} = {t.id : t \in firstRun}
    /\ \A r \in table : \E t \in firstRun :
          t.id = r.id /\ r.likes = (IF t.likes = Absent THEN 0 ELSE t.likes)

C14_FailureNeverRaised == dbPc # "threw"

RunsOver == Len(runs) = Len(usernames) /\ \A i \in 1..Len(runs) : runs[i].status # "Running"

\* C15: in a batch run the store connection and the remote-service client are
\* each initialized once, before the first pipeline starts, and each closed
\* once, after the last pipeline has finished (never twice, never earlier);
\* no pipeline runs while either is uninitialized or closed.
C15_SinksOpenAroundBatch ==
    /\ \A f \in DOMAIN opened : opened[f] <= 1
    /\ (runs # <<>> => opened.dbInit = 1 /\ opened.lmInit = 1)
    /\ (mainPc \in {"loop", "running"} =>
           /\ db = "open" /\ isInitialized /\ apiClient # "null"
           /\ opened.dbClose = 0 /\ opened.lmClose = 0)
    /\ (mainPc \in {"finally_db", "finally_linkace", "ended"}
           \/ opened.dbClose = 1 \/ opened.lmClose = 1 => RunsOver)
    /\ (mainPc = "finally_linkace" => opened.dbClose = 1 /\ opened.lmClose = 0)
    /\ (mainPc = "ended" =>
           /\ \A f \in DOMAIN opened : opened[f] = 1
           /\ db = "null" /\ ~isInitialized /\ apiClient = "null")

C15_Witness ==
    /\ mainPc = "ended" /\ Len(runs) = 2
    /\ opened = [dbInit |-> 1, dbClose |-> 1, lmInit |-> 1, lmClose |-> 1]

\* C16: a missing remote-service host or key makes initialization fail before
\* any pipeline is started, so no account is processed; a missing target list
\* id alone does not fail it: with host and key set, initialization fails only
\* on its connection test, and accounts are processed once it has succeeded.
C16_MissingConfiguration ==
    /\ (linkaceHost = "" \/ linkaceApiKey = "" =>
           /\ runs = <<>> /\ runPc = "idle"
           /\ mainPc \in {"init_db", "init_linkace", "exited"}
           /\ ~isInitialized /\ lmRemote = 0
           /\ (lmResult # "none" => lmResult = "threw" /\ mainPc = "exited"))
    /\ (linkaceHost # "" /\ linkaceApiKey # "" /\ linkaceListId = <<>> =>
           /\ (lmResult = "threw" => lmRemote = 1 /\ apiClient = "client")
           /\ (lmResult = "ok" => opened.lmInit = 1 /\ mainPc # "init_linkace")
           /\ (mainPc = "ended" => RunsOver))

C16_Witness ==
    /\ linkaceListId = <<>> /\ linkaceHost # "" /\ linkaceApiKey # ""
    /\ mainPc = "ended" /\ Len(runs) = 2 /\ lmResult = "ok"
    /\ \A i \in 1..2 : runs[i].status = "Done"

\* The positions in the consumed sequence of the records with the id of c.
SeenAt(c) == {k \in 1..Len(consumed) : consumed[k].id = c.id}

\* C17 as stated: when the source yields several records with the same id,
\* the record collectTweets keeps for that id is the first one seen.
C17_FirstSeenKept ==
    "process" \in visited =>
        \A i \in 1..Len(collected) :
            /\ SeenAt(collected[i]) # {}
            /\ collected[i] = consumed[CHOOSE k \in SeenAt(collected[i]) :
                                          \A j \in SeenAt(collected[i]) : k <= j]

\* C17, amended: when the source yields several records with the same id,
\* the record collectTweets keeps for that id is the last one seen (a later
\* record with the same id replaces the content of the earlier one, at the
\* place of the earlier one in the list).
C17_LastSeenKept ==
    "process" \in visited =>
        \A i \in 1..Len(collected) :
            /\ SeenAt(collected[i]) # {}
            /\ collected[i] = consumed[CHOOSE k \in SeenAt(collected[i]) :
                                          \A j \in SeenAt(collected[i]) : k >= j]

C17_Witness ==
    /\ "process" \in visited
    /\ IdsOf(consumed) = <<1, 2, 1>>
    /\ Len(collected) = 2
    /\ collected[1] = [id |-> 1, n |-> 3]
    /\ collected[2] = [id |-> 2, n |-> 2]

\* The positions of the tweets that are not retweets.
Engaged == {i \in 1..Len(aPosts) : ~aPosts[i].isRetweet}

\* A count of a tweet, an absent one being 0.
CountAt(i, field) == IF aPosts[i][field] = Absent THEN 0 ELSE aPosts[i][field]

RECURSIVE SumAt(_, _)
SumAt(I, field) ==
    IF I = {} THEN 0
    ELSE LET i == CHOOSE j \in I : TRUE IN CountAt(i, field) + SumAt(I \ {i}, field)

Analytics == aResult[1]

\* C18: for every non-empty tweets array averageLikes is the sum of the likes
\* of the tweets that are not retweets divided by their number (to two
\* decimals), and it is 0, not NaN, when the array holds only retweets.
C18_AverageLikes ==
    aPc = "returned" /\ aPosts # <<>> =>
        LET n == Cardinality(Engaged)
            avg == Analytics.engagement.averageLikes
            diff == avg * n - 100 * SumAt(Engaged, "likes")
        IN  IF n = 0
            THEN avg = 0
            ELSE avg # NaN /\ 2 * diff <= n /\ -2 * diff <= n

\* C19: totalLikes, totalRetweetCount and totalReplies are the sums of the
\* counts over exactly the tweets with isRetweet false, an absent count being
\* 0; retweets is the number of tweets with isRetweet true and directTweets
\* the number of tweets that are neither reply nor retweet.
C19_EngagementTotals ==
    aPc = "returned" =>
        /\ Analytics.engagement.totalLikes = SumAt(Engaged, "likes")
        /\ Analytics.engagement.totalRetweetCount = SumAt(Engaged, "retweetCount")
        /\ Analytics.engagement.totalReplies = SumAt(Engaged, "replies")
        /\ Analytics.retweets = Len(aPosts) - Cardinality(Engaged)
        /\ Analytics.directTweets = Cardinality({i \in Engaged : ~aPosts[i].isReply})

C19_Witness ==
    /\ aPc = "returned"
    /\ aPosts = ExamplePosts
    /\ Analytics.engagement.totalLikes = 60
    /\ Analytics.retweets = 1
    /\ Analytics.directTweets = 2

\* C20: topTweets holds min(5, number of tweets that are not retweets)
\* entries, none of a retweet, ordered by likes descending (absent likes as 0)
\* with equal likes in the order of the array, no tweet left out has more
\* likes than one included, and the tweets array is the same after the call.
C20_TopTweets ==
    aPc = "returned" =>
        LET top == Analytics.engagement.topTweets
            n == Cardinality(Engaged)
            in == {top[j].id : j \in 1..Len(top)}
        IN  /\ Len(top) = (IF n < 5 THEN n ELSE 5)
            /\ in \subseteq Engaged
            /\ Cardinality(in) = Len(top)
            /\ \A j, k \in 1..Len(top) :
                  j < k =>
                     \/ CountAt(top[j].id, "likes") > CountAt(top[k].id, "likes")
                     \/ /\ CountAt(top[j].id, "likes") = CountAt(top[k].id, "likes")
                        /\ top[j].id < top[k].id
            /\ \A i \in Engaged \ in : \A j \in in :
                  CountAt(i, "likes") <= CountAt(j, "likes")
            /\ aPostsAfter = aPosts

C20_Witness ==
    /\ aPc = "returned"
    /\ Len(aPosts) = 6
    /\ [i \in 1..6 |-> aPosts[i].likes] = <<1, 2, Absent, 2, 1, 1>>
    /\ [j \in 1..5 |-> Analytics.engagement.topTweets[j].id] = <<2, 4, 1, 5, 6>>
    /\ aPostsAfter = aPosts

\* The timestamps that are a time.
KnownTimes == {aPosts[i].timestamp : i \in 1..Len(aPosts)} \ {Null, Absent}

\* C21: tweets whose timestamp is null or not there are counted in
\* totalTweets and do not contribute to the time range, whose start and end
\* are the days of the least and the greatest known timestamp, or 'N/A' when
\* no timestamp is known; generateAnalytics never raises because of them.
C21_TimeRangeOfKnown ==
    /\ aPc # "threw"
    /\ (aPc = "returned" =>
          /\ Analytics.totalTweets = Len(aPosts)
          /\ IF KnownTimes = {}
             THEN Analytics.timeRange = [start |-> <<>>, end |-> <<>>]
             ELSE /\ Analytics.timeRange.start =
                        <<(CHOOSE d \in KnownTimes : \A e \in KnownTimes : d <= e)
                            \div 86400000>>
                  /\ Analytics.timeRange.end =
                        <<(CHOOSE d \in KnownTimes : \A e \in KnownTimes : d >= e)
                            \div 86400000>>)

\* C22: generateAnalytics on the empty array returns the zero value: every
\* count and engagement total 0, no top tweet, time range 'N/A' to 'N/A',
\* every content type 0; it does not raise.
C22_EmptyGivesZero ==
    aPosts = <<>> /\ aPc # "idle" =>
        /\ aPc = "returned"
        /\ Analytics.totalTweets = 0 /\ Analytics.directTweets = 0
        /\ Analytics.replies = 0 /\ Analytics.retweets = 0
        /\ Analytics.engagement.totalLikes = 0
        /\ Analytics.engagement.totalRetweetCount = 0
        /\ Analytics.engagement.totalReplies = 0
        /\ Analytics.engagement.averageLikes = 0
        /\ Analytics.engagement.topTweets = <<>>
        /\ Analytics.timeRange.start = <<>> /\ Analytics.timeRange.end = <<>>
        /\ \A b \in DOMAIN Analytics.contentTypes : Analytics.contentTypes[b] = 0

C22_Witness == aPosts = <<>> /\ aPc = "returned" /\ Analytics.totalTweets = 0

\* C23: in the bulk create payload each link's lists holds the one configured
\* list id when a list id is configured, and no entry when none is.
C23_ListMembership ==
    \A b \in 1..Len(bulkPosts) : \A j \in 1..Len(bulkPosts[b].models) :
        IF linkaceListId = <<>>
        THEN bulkPosts[b].models[j].lists = <<>>
        ELSE /\ Len(bulkPosts[b].models[j].lists) = 1
             /\ bulkPosts[b].models[j].lists[1] # NaN
             /\ bulkPosts[b].models[j].lists[1] = ParseInt(linkaceListId)

\* The token of the last saveNextToken that wrote its file, when that call
\* was made on the newest DataOrganizer (same) or on one before it.
SavedHere == lastSave # <<>> /\ lastSave[1].org = orgNo
SavedBefore == lastSave # <<>> /\ lastSave[1].org < orgNo
SavedToken == lastSave[1].token

NoTokenData ==
    \A f \in TokenFileOf(baseDir) : \A k \in 1..Len(f.data) : f.data[k] = " "

\* C24 as stated: getLastNextToken returns null and does not raise when there
\* is no token file or the file is blank; saveNextToken never raises; after a
\* saveNextToken(t) that wrote its file, t not blank, getLastNextToken of
\* the same DataOrganizer returns t.
C24_TokenRoundTrip ==
    /\ (fileOp \in {"get", "save"} => ~fileRaised)
    /\ (fileOp = "get" /\ NoTokenData => tokenResult = <<>>)
    /\ (fileOp = "get" /\ SavedHere /\ SavedToken # <<" ">> => tokenResult = <<SavedToken>>)

\* C24, amended: as above, but what getLastNextToken returns after
\* saveNextToken(t) is t without the white space at its two ends.
C24_TokenRoundTripTrimmed ==
    /\ (fileOp \in {"get", "save"} => ~fileRaised)
    /\ (fileOp = "get" /\ NoTokenData => tokenResult = <<>>)
    /\ (fileOp = "get" /\ SavedHere /\ SavedToken = <<"a">> => tokenResult = <<SavedToken>>)
    /\ (fileOp = "get" /\ SavedHere /\ SavedToken = <<"a", " ">> => tokenResult = <<<<"a">>>>)

C24_Witness ==
    /\ fileOp = "get" /\ SavedHere
    /\ SavedToken = <<"a", " ">>
    /\ tokenResult = <<<<"a">>>>

\* C26: a token saved by saveNextToken in one pipeline run of an account
\* (here one without white space at its ends) is what getLastNextToken
\* returns in the next run of the account, by a DataOrganizer constructed
\* later, when no other token was saved in between.
C26_TokenSurvivesRuns ==
    fileOp = "get" /\ SavedBefore /\ SavedToken = <<"a">> => tokenResult = <<SavedToken>>

\* C27: whenever saveTweets makes its first write, the run directory has its
\* raw, processed, analytics, exports and meta directories; once
\* createDirectories has finished, latest points to this run's directory; a
\* failure to remove or create latest is not raised.
C27_BootstrapBeforePersist ==
    /\ (fileOp = "persist" =>
           dirsAtWrite = {<<baseDir, BootSteps[k]>> : k \in 1..5})
    /\ (orgNo > 0 /\ bootPc = BootDone => latestPath = <<baseDir>>)

\* C25: a run that passes verification and collects no tweet still writes the
\* analytics and calls a sink; it does not end having written nothing and
\* called no sink.
C25_EmptyRunStillPersists ==
    runPc = "done" /\ session = "true" /\ "process" \in visited /\ collected = <<>> =>
        /\ sinkCalls # <<>>
        /\ "stats" \in Range(written)

\* What C28 says of one step of the manager.
C28_Step ==
    /\ (HUrlExists /\ (~isInitialized \/ apiClient = "null") =>
           lmResult' = "url_threw" /\ lmRemote' = 0)
    /\ (HSaveTweets /\ (~isInitialized \/ apiClient = "null") =>
           lmPc' = "threw" /\ checks' = <<>> /\ bulkPosts' = <<>>)
    /\ (HInitialize /\ isInitialized =>
           /\ lmRemote' = 0 /\ lmResult' = "ok"
           /\ UNCHANGED <<linkaceHost, linkaceApiKey, linkaceListId, isInitialized, apiClient>>)
    /\ (HInitialize /\ lmResult' = "threw" => ~isInitialized')
    /\ (HInitialize /\ ~isInitialized /\
          (linkaceHost = "" \/ linkaceApiKey = ""
             \/ (linkaceListId # <<>> /\ ~IsDigit(Head(linkaceListId)))) =>
           lmResult' = "threw" /\ lmRemote' = 0)

\* C28: isInitialized implies that the client is set; urlExists and
\* saveTweets on a manager that is not initialized (never, after a failed
\* initialize, after close) raise and make no remote call; initialize on an
\* initialized manager makes no remote call and changes nothing; a failed
\* initialize leaves isInitialized false.
C28_GuardedManager ==
    /\ [](isInitialized => apiClient # "null")
    /\ [](lmPc = "threw" => checks = <<>> /\ bulkPosts = <<>>)
    /\ [][C28_Step]_vars

C28_Witness ==
    /\ lmResult = "url_threw" /\ lmRemote = 0
    /\ ~isInitialized /\ apiClient = "client"
    /\ lmPc = "threw"

\* C29: when main has ended, on whatever path, every shared sink that main
\* initialized has been closed; in particular the database is closed when
\* the initialization of the LinkaceManager failed after it was opened.
C29_SinksClosedAtEnd ==
    mainPc \in {"ended", "exited"} =>
        /\ (opened.dbInit = 1 => db = "null" /\ opened.dbClose = 1)
        /\ (opened.lmInit = 1 => ~isInitialized /\ opened.lmClose = 1)

====
